---- MODULE Spec2Model ----
(***************************************************************************)
(* A model of usajobs_watch.py: one process run (the __main__ block and    *)
(* run_once) is a sequence of steps, one per I/O call of the script (each  *)
(* HTTP GET, each sleep, each webhook POST, the read of the state file,    *)
(* the open / dump / rename of save_seen), so that a kill of the process   *)
(* can fall between any two of them.  The state file and its temporary     *)
(* sibling outlive the process; everything else is lost when it ends.      *)
(***************************************************************************)
EXTENDS Integers, Sequences, FiniteSets, TLC

(* ----------------------------- bounds --------------------------------- *)
\* Number of process runs (cron invocations) in one behaviour.
MaxRuns == 2
\* Longest result list drawn from the small catalogue of items.
MaxItems == 2

(* ------------------------ program constants --------------------------- *)
RETRY_ATTEMPTS == 3
RETRY_BACKOFF == 5
NOTIFY_FETCH_FAILURE == TRUE
NOTIFY_ZERO_RESULTS == TRUE
NOTIFY_NO_NEW_ITEMS == TRUE
SEEN_PATH == "seen_usajobs.json"

(* ----------------------------- values --------------------------------- *)
\* Python's None where a string is expected (a JSON null or a missing key).
None == "<None>"
\* An f-string renders None as the text "None" and a string as itself.
Fmt(x) == IF x = None THEN "None" ELSE x
\* Python truthiness of an optional string.
Truthy(s) == s # None /\ s # ""

(* ------------------------- the API's result items --------------------- *)
\* A result item: MatchedObjectId, and the MatchedObjectDescriptor (desc says
\* whether the item has a non-empty one) with PositionTitle, ApplyURI (a list,
\* <<>> when missing or empty), PositionURI and the JobGrade codes.
Item(id, desc, title, apply, puri, grades) ==
    [id |-> id, desc |-> desc, title |-> title, apply |-> apply,
     puri |-> puri, grades |-> grades]

ItemNoDesc == Item("9", FALSE, None, <<>>, None, <<>>)
ItemA  == Item("1", TRUE, "Planner", <<"u1">>, "p1", <<"11">>)
\* The same announcement, title and resolved URL as ItemA, the URL coming
\* from PositionURI instead of ApplyURI.
ItemA2 == Item("1", TRUE, "Planner", <<>>, "u1", <<"11">>)
ItemB  == Item("2", TRUE, "Clerk", <<>>, None, <<"09">>)
\* An announcement no response of the model returns; a state file may hold
\* its fingerprint.
ItemE  == Item("5", TRUE, "Planner", <<"u5", "u6">>, "p5", <<>>)

Catalogue == {ItemNoDesc, ItemA, ItemA2, ItemB}

RECURSIVE ListsUpTo(_, _)
ListsUpTo(S, n) ==
    IF n = 0 THEN {<<>>}
    ELSE LET shorter == ListsUpTo(S, n - 1)
         IN  shorter \cup {Append(l, x) : l \in {m \in shorter : Len(m) = n - 1}, x \in S}

ItemLists == ListsUpTo(Catalogue, MaxItems)

\* The parsed body of a 200 response: SearchResult.SearchResultItems (hasList
\* FALSE when the key is missing or null) and SearchResult.SearchResultCount
\* (hasCount FALSE when the key is missing).
Responses ==
    {[hasList |-> TRUE, items |-> l, hasCount |-> TRUE, count |-> Len(l)] : l \in ItemLists}
    \cup {[hasList |-> TRUE, items |-> l, hasCount |-> TRUE, count |-> 0] :
             l \in {m \in ItemLists : Len(m) <= 1}}
    \cup {[hasList |-> TRUE, items |-> l, hasCount |-> FALSE, count |-> 0] : l \in ItemLists}
    \cup {[hasList |-> FALSE, items |-> <<>>, hasCount |-> c, count |-> n] :
             c \in BOOLEAN, n \in {0, 1}}

\* The body of a response that is not read (a status other than 200, a body
\* that is not JSON, no response at all).
NoBody == [hasList |-> FALSE, items |-> <<>>, hasCount |-> FALSE, count |-> 0 - 1]

\* items = (sr.get("SearchResultItems", []) or [])
Items(r) == IF r.hasList THEN r.items ELSE <<>>

\* total = sr.get("SearchResultCount", len(items))
Total(r) == IF r.hasCount THEN r.count ELSE Len(Items(r))

\* A test that looks at the length of the list only.
ZeroResultsByLength(its, tot) == Len(its) = 0

\* if (total == 0 or len(items) == 0)
ZeroResults(its, tot) == tot = 0 \/ Len(its) = 0

\* What run_once keeps of a response.
Parsed(r) == [items |-> Items(r), total |-> Total(r)]
NoResp == [items |-> <<>>, total |-> 0 - 1]

\* What run_once may get out of the bodies a reply can carry.
ParsedResponses == {Parsed(r) : r \in Responses}
ParsedOf(reply) == IF ~reply.exc /\ reply.json THEN ParsedResponses ELSE {NoResp}

(* --------------------------- light records ---------------------------- *)
\* rec of run_once: the fields of the descriptor that jid and the stored
\* entry read.
Rec(item) ==
    [MatchedObjectId |-> item.id, PositionTitle |-> item.title,
     ApplyURI |-> item.apply, PositionURI |-> item.puri, JobGrade |-> item.grades]

\* (rec.get('ApplyURI') or [None])[0] or rec.get('PositionURI','') : the first
\* apply URL when the list is non-empty and that URL is non-empty, else the
\* position URL (the key PositionURI is always present in rec, so the default
\* '' is never taken and a missing URL stays None).
ResolvedURL(rec) ==
    LET first == IF rec.ApplyURI = <<>> THEN None ELSE rec.ApplyURI[1]
    IN  IF Truthy(first) THEN first ELSE rec.PositionURI

\* The text that is hashed.  sha256(...)[:24] is taken to be injective on
\* these texts (collisions are accepted as negligible), so the text stands
\* for its digest.
jid(rec) ==
    Fmt(rec.MatchedObjectId) \o "|" \o Fmt(rec.PositionTitle) \o "|" \o Fmt(ResolvedURL(rec))

\* rec.get("ApplyURI") or rec.get("PositionURI") : the whole apply list when
\* it is non-empty, else the position URL.
StoredUri(rec) ==
    IF rec.ApplyURI # <<>> THEN [list |-> TRUE, v |-> rec.ApplyURI]
    ELSE [list |-> FALSE, v |-> <<rec.PositionURI>>]

\* The value stored under a new key.
Entry(rec, t) == [title |-> rec.PositionTitle, first_seen |-> t, uri |-> StoredUri(rec)]

(* ------------------------------ files --------------------------------- *)
\* A SeenStore: a function from fingerprints to entries.
EmptyStore == [k \in {} |-> Entry(Rec(ItemNoDesc), 0)]

\* A loop that does not record the posting it has notified.
PutNothing(store, k, e) == store

\* A loop that keeps the new entry and drops what the store held.
PutAlone(store, k, e) == [x \in {k} |-> e]

\* A loop that files the new entry under the title of the posting.
PutUnderTitle(store, k, e) ==
    [x \in DOMAIN store \cup {e.title} |-> IF x = e.title THEN e ELSE store[x]]

\* seen[key] = {...}
Put(store, k, e) == [x \in DOMAIN store \cup {k} |-> IF x = k THEN e ELSE store[x]]

\* The content of a path: no file, a file that does not parse as JSON (a
\* truncated or empty file), or the complete dump of a store.
Absent == [kind |-> "absent", data |-> EmptyStore]
Unparsable == [kind |-> "unparsable", data |-> EmptyStore]
Dump(store) == [kind |-> "store", data |-> store]

\* A save_seen that writes the state file in place.
TmpPathInPlace(path) == path

\* tmp = path + ".tmp"
TmpPath(path) == path \o ".tmp"
Paths == {SEEN_PATH, SEEN_PATH \o ".tmp"}

\* A load_seen that never finds the file.
load_seen_nothing(fs, path) == EmptyStore

\* A load_seen that takes a complete temporary file for the state file.
load_seen_from_tmp(fs, path) ==
    IF fs[path \o ".tmp"].kind = "store" THEN fs[path \o ".tmp"].data
    ELSE IF fs[path].kind = "store" THEN fs[path].data ELSE EmptyStore

\* A load_seen that falls back on a complete temporary file when the state
\* file cannot be read.
load_seen_backup(fs, path) ==
    IF fs[path].kind = "store" THEN fs[path].data
    ELSE IF fs[path \o ".tmp"].kind = "store" THEN fs[path \o ".tmp"].data ELSE EmptyStore

\* load_seen: the parsed file, {} on any exception (no file, bad JSON).
load_seen(fs, path) == IF fs[path].kind = "store" THEN fs[path].data ELSE EmptyStore

\* Stores the state file may hold when the model starts (entries written by
\* earlier runs, at time 0).
StoreOf(items) == [k \in {jid(Rec(i)) : i \in items} |->
                     Entry(Rec(CHOOSE i \in items : jid(Rec(i)) = k), 0)]
InitFiles == {Absent, Unparsable, Dump(StoreOf({ItemA})), Dump(StoreOf({ItemE}))}

(* --------------------------- the network ------------------------------ *)
\* What one requests.get can bring: a transport exception (RequestException),
\* or a response with a status and a body that parses as JSON or does not.
GetReplies ==
    {[exc |-> TRUE,  status |-> 0,   json |-> FALSE],
     [exc |-> FALSE, status |-> 200, json |-> TRUE],
     [exc |-> FALSE, status |-> 200, json |-> FALSE],
     [exc |-> FALSE, status |-> 503, json |-> TRUE]}

NoReply == [exc |-> FALSE, status |-> 0, json |-> FALSE]

\* What one requests.post to the webhook can bring.
PostReplies ==
    {[exc |-> TRUE,  status |-> 0],
     [exc |-> FALSE, status |-> 204],
     [exc |-> FALSE, status |-> 200],
     [exc |-> FALSE, status |-> 429]}

\* A resp.json() whose error is no RequestException.
JsonErrorEscapes == FALSE

\* resp.json() on a body that is not JSON raises
\* requests.exceptions.JSONDecodeError, which is a RequestException
\* (requests >= 2.27), so the except clause of fetch_with_retries catches it.
JsonErrorCaught == TRUE

\* One pass of the try statement of fetch_with_retries: "return" (the parsed
\* body is returned), "failed" (last_err is set to err and the loop goes
\* on), or "escape" (an exception the except clause does not catch).
Attempt(reply) ==
    IF reply.exc THEN [out |-> "failed", err |-> "timed out"]
    ELSE IF reply.status = 200
         THEN IF reply.json THEN [out |-> "return", err |-> None]
              ELSE IF JsonErrorCaught THEN [out |-> "failed", err |-> "Expecting value"]
              ELSE [out |-> "escape", err |-> "Expecting value"]
    ELSE [out |-> "failed", err |-> "HTTP 503"]

\* A loop that sleeps after the last attempt too.
SleepsAfterEvery(i, attempts) == i <= attempts

\* if i < attempts: whether a sleep follows failed attempt i.
SleepsAfter(i, attempts) == i < attempts

RECURSIVE Pow2(_)
Pow2(n) == IF n = 0 THEN 1 ELSE 2 * Pow2(n - 1)

\* A backoff that starts at twice the base.
SleepForDoubled(backoff, i) == backoff * Pow2(i)

\* sleep_for = backoff * (2 ** (i - 1))
SleepFor(backoff, i) == backoff * Pow2(i - 1)

\* raise RuntimeError(last_err or "Unknown fetch error")
RaisedMessage(err) == IF Truthy(err) THEN err ELSE "Unknown fetch error"

\* A send_discord that lets a transport exception through.
send_discord_raising(wh, reply) ==
    IF ~wh THEN "printed"
    ELSE IF reply.exc THEN "raise"
    ELSE IF 200 <= reply.status /\ reply.status < 300 THEN "ok"
    ELSE "failed"

\* send_discord: what becomes of the message.  It is printed when no webhook
\* is configured; otherwise 204 and every other 2xx are a success, any other
\* status and any exception are logged as a warning.  It never raises.
send_discord(wh, reply) ==
    IF ~wh THEN "printed"
    ELSE IF reply.exc THEN "failed"
    ELSE IF reply.status = 204 THEN "ok"
    ELSE IF 200 <= reply.status /\ reply.status < 300 THEN "ok"
    ELSE "failed"

(* ------------------------------ state --------------------------------- *)
VARIABLES
    fs,         \* the content of SEEN_PATH and of its .tmp sibling
    pc,         \* where the process is ("idle": no process is running)
    runs,       \* processes started so far; it also stands for the clock
    ENFORCE_LOCAL_8PM,  \* the setting of the process at the gate of __main__
    hour,       \* now.hour of guard_local_8pm, America/Los_Angeles
    USER_AGENT, \* USAJOBS_USER_AGENT as run_once finds it
    API_KEY,    \* USAJOBS_API_KEY as run_once finds it
    webhook,    \* whether DISCORD_WEBHOOK is set for the running process
    items,      \* items of run_once: the result list of the fetched body
    total,      \* total of run_once (-1 until the fetch has returned)
    i,          \* the attempt number of fetch_with_retries
    last_err,   \* last_err of fetch_with_retries
    trace,      \* the GETs and sleeps of the fetch_with_retries call, in order
    reply,      \* what the last requests.get of that call brought
    e,          \* the text of the exception run_once caught around the fetch
    seen,       \* the in-memory SeenStore of run_once
    new_count,  \* new_count of run_once
    idx,        \* position in items of the item the for loop is at
    log,        \* the I/O calls of the running process, in order
    oldFile,    \* history: the state file as the running process found it
    prevResp,   \* history: the items and total the previous process got, when
                \* the API is to answer the same again (NoResp otherwise)
    prevEnd,    \* history: how that previous process ended: "completed",
                \* "crashed" (killed), "none" when the API answers something
                \* else or did not answer; "aborted": an uncaught exception
    lost,       \* history: fingerprints a killed process had notified
    notified    \* history, kept when the model starts without a state
                \* file: the fingerprints of the postings some process has
                \* called send_discord for (Untracked otherwise)

vars == <<fs, pc, runs, ENFORCE_LOCAL_8PM, hour, USER_AGENT, API_KEY, webhook, items, total, i, last_err, trace, reply, e, seen, new_count, idx, log,
          oldFile, prevResp, prevEnd, lost, notified>>

\* One I/O call: op is "GET", "sleep", "load", "notify", "open", "dump" or
\* "replace"; kind is the kind of notification, or how the attempt of a GET
\* went; key is the fingerprint of the posting notified, the error text of a
\* fetch-failure notification or the path; n is the attempt number, the
\* seconds slept or the position of the item; res is what send_discord made
\* of the message.
Ev(op, kind, key, n, res) == [op |-> op, kind |-> kind, key |-> key, n |-> n, res |-> res]

\* The local hours a process may start in: 8 PM and the hours next to it.
Hours == {19, 20, 21}
\* No process is at the gate.
NoHour == 0 - 1

\* What USAJOBS_USER_AGENT and USAJOBS_API_KEY may hold: unset, set to the
\* empty string (the user agent), or set.
UserAgents == {None, "", "me@example.com"}
ApiKeys == {None, "key"}
\* No run_once has read the credentials.
Unread == "<unread>"

\* The history of notified fingerprints is not kept.
Untracked == {"<untracked>"}

\* int(time.time()): the seconds the wall clock may show when the loop
\* reads it for a posting.  Each posting reads the clock on its own: two
\* postings of one process may get different seconds, and postings of two
\* processes the same second; a clock that was set back shows an earlier
\* second than it showed before.
Times == {1, 2}

Init ==
    /\ fs \in [Paths -> InitFiles]
    /\ fs[SEEN_PATH \o ".tmp"] = Absent
    /\ pc = "idle"
    /\ runs = 0
    /\ ENFORCE_LOCAL_8PM = FALSE
    /\ hour = NoHour
    /\ USER_AGENT = Unread
    /\ API_KEY = Unread
    /\ webhook = FALSE
    /\ items = <<>>
    /\ total = 0 - 1
    /\ i = 0
    /\ last_err = None
    /\ trace = <<>>
    /\ reply = NoReply
    /\ e = None
    /\ seen = EmptyStore
    /\ new_count = 0
    /\ idx = 0
    /\ log = <<>>
    /\ oldFile = fs[SEEN_PATH]
    /\ prevResp = NoResp
    /\ prevEnd = "none"
    /\ lost = {}
    /\ notified = Untracked

(* --------------------------- run_once --------------------------------- *)
\* A loop without the test for the descriptor.
SkippedIfSeen(item, store) == jid(Rec(item)) \in DOMAIN store

\* The two tests of the for loop that skip an item: no descriptor, or its
\* key already in seen.
Skipped(item, store) == ~item.desc \/ jid(Rec(item)) \in DOMAIN store

\* The position of the first item from k on that the loop does not skip
\* (Len(items) + 1 when there is none).
RECURSIVE NextNew(_, _, _)
NextNew(its, store, k) ==
    IF k > Len(its) THEN k
    ELSE IF Skipped(its[k], store) THEN NextNew(its, store, k + 1)
    ELSE k

\* A run_once that saves whether or not a posting was accepted.
AfterItemAlwaysSaves(its, k, count) ==
    IF k <= Len(its) THEN "send" ELSE "save_open"

\* A run_once that takes the else branch whatever new_count is.
AfterItemNeverSaves(its, k, count) ==
    IF k <= Len(its) THEN "send"
    ELSE IF NOTIFY_NO_NEW_ITEMS THEN "nonew" ELSE "done"

\* Where run_once goes once the loop has reached position k: to the next
\* send_discord of the loop, or past the loop to save_seen (if new_count) or
\* to the "no new items" message.
AfterItem(its, k, count) ==
    IF k <= Len(its) THEN "send"
    ELSE IF count # 0 THEN "save_open"
    ELSE IF NOTIFY_NO_NEW_ITEMS THEN "nonew" ELSE "done"

\* The fingerprints of the postings the running process has notified.
PostingKeys(l) == {l[j].key : j \in {x \in DOMAIN l : l[x].op = "notify" /\ l[x].kind = "posting"}}

\* The process ends (returns, or dies): what it held in memory is gone.
Forget ==
    /\ ENFORCE_LOCAL_8PM' = FALSE
    /\ hour' = NoHour
    /\ USER_AGENT' = Unread
    /\ API_KEY' = Unread
    /\ webhook' = FALSE
    /\ items' = <<>>
    /\ total' = 0 - 1
    /\ i' = 0
    /\ last_err' = None
    /\ trace' = <<>>
    /\ reply' = NoReply
    /\ e' = None
    /\ seen' = EmptyStore
    /\ new_count' = 0
    /\ idx' = 0
    /\ log' = <<>>

\* A gate that opens at 8 PM and stays open for the rest of the day.
guard_local_8pm_onwards(h) == h >= 20

\* guard_local_8pm: true only in the hour of 8 PM.
guard_local_8pm(h) == h = 20

\* A sanity check that gives up only when both credentials are missing.
CredsMissingBoth(ua, key) == ~Truthy(ua) /\ ~Truthy(key)

\* The sanity check of run_once: not USER_AGENT or not API_KEY.
CredsMissing(ua, key) == ~Truthy(ua) \/ ~Truthy(key)

\* __main__: a process starts at local hour h with the gate enforced or not.
\* With the gate closed it prints that it skips the run, and is done;
\* otherwise it calls run_once.
Main(enf, h) ==
    /\ notified' = notified
    /\ pc = "idle"
    /\ runs < MaxRuns
    /\ runs' = runs + 1
    /\ ENFORCE_LOCAL_8PM' = enf
    /\ hour' = h
    /\ pc' = IF enf /\ ~guard_local_8pm(h) THEN "done" ELSE "run_once"
    /\ oldFile' = fs[SEEN_PATH]
    /\ UNCHANGED <<fs, USER_AGENT, API_KEY, webhook, items, total, i, last_err, trace,
                   reply, e, seen, new_count, idx, log, prevResp, prevEnd, lost>>

\* run_once is called and both credentials are there: on to the fetch.  The
\* gate is behind, and nothing reads the hour or the setting again.
Start(wh, ua, key) ==
    /\ notified' = notified
    /\ pc = "run_once"
    /\ ~CredsMissing(ua, key)
    /\ USER_AGENT' = ua
    /\ API_KEY' = key
    /\ webhook' = wh
    /\ ENFORCE_LOCAL_8PM' = FALSE
    /\ hour' = NoHour
    /\ pc' = "get"
    /\ i' = 1
    /\ UNCHANGED <<fs, runs, items, total, last_err, trace, reply, e, seen, new_count, idx,
                   log, oldFile, prevResp, prevEnd, lost>>

\* run_once is called and USER_AGENT or API_KEY is missing: one message,
\* then return.
StartNoCreds(wh, ua, key, ans) ==
    /\ notified' = notified
    /\ pc = "run_once"
    /\ CredsMissing(ua, key)
    /\ USER_AGENT' = ua
    /\ API_KEY' = key
    /\ webhook' = wh
    /\ ENFORCE_LOCAL_8PM' = FALSE
    /\ hour' = NoHour
    /\ log' = Append(log, Ev("notify", "creds", "", 0, send_discord(wh, ans)))
    /\ pc' = "done"
    /\ UNCHANGED <<fs, runs, items, total, i, last_err, trace, reply, e, seen, new_count,
                   idx, oldFile, prevResp, prevEnd, lost>>

\* Attempt i of fetch_with_retries: one requests.get and what the try
\* statement makes of it.  On status 200 the parsed body is about to be
\* returned.  On a failure last_err is set; a sleep follows while attempts
\* remain, else RuntimeError is raised and run_once catches it as e.
Get(got) ==
    /\ notified' = notified
    /\ pc = "get"
    /\ LET a == Attempt(got) IN
       /\ trace' = Append(trace, Ev("GET", a.out, "", i, ""))
       /\ reply' = got
       /\ IF a.out = "return"
          THEN /\ pc' = "fetched"
               /\ UNCHANGED <<last_err, e>>
          ELSE /\ IF a.out = "failed"
                  THEN /\ last_err' = a.err
                       /\ IF SleepsAfter(i, RETRY_ATTEMPTS)
                          THEN pc' = "sleep" /\ e' = e
                          ELSE /\ pc' = IF NOTIFY_FETCH_FAILURE THEN "failed" ELSE "done"
                               /\ e' = RaisedMessage(a.err)
                  ELSE /\ pc' = IF NOTIFY_FETCH_FAILURE THEN "failed" ELSE "done"
                       /\ e' = a.err
                       /\ last_err' = last_err
    /\ UNCHANGED <<fs, runs, ENFORCE_LOCAL_8PM, hour, USER_AGENT, API_KEY, webhook, items, total, i, seen, new_count, idx, log, oldFile,
                   prevResp, prevEnd, lost>>

\* time.sleep(sleep_for) between two attempts.
Sleep ==
    /\ notified' = notified
    /\ pc = "sleep"
    /\ trace' = Append(trace, Ev("sleep", "", "", SleepFor(RETRY_BACKOFF, i), ""))
    /\ i' = i + 1
    /\ pc' = "get"
    /\ UNCHANGED <<fs, runs, ENFORCE_LOCAL_8PM, hour, USER_AGENT, API_KEY, webhook, items, total, last_err, reply, e, seen, new_count,
                   idx, log, oldFile, prevResp, prevEnd, lost>>

\* fetch_with_retries returns the parsed body and its frame is gone; run_once
\* reads items and total out of the body (d) and goes to the zero-results
\* message or on to load_seen.
Return(d) ==
    /\ notified' = notified
    /\ pc = "fetched"
    /\ d \in ParsedOf(reply)
    /\ prevResp # NoResp => d = prevResp
    /\ items' = d.items
    /\ total' = d.total
    /\ pc' = IF ZeroResults(d.items, d.total)
             THEN (IF NOTIFY_ZERO_RESULTS THEN "zero" ELSE "done")
             ELSE "load"
    /\ i' = 0
    /\ last_err' = None
    /\ trace' = <<>>
    /\ reply' = NoReply
    /\ UNCHANGED <<fs, runs, ENFORCE_LOCAL_8PM, hour, USER_AGENT, API_KEY, webhook, e, seen, new_count, idx, log,
                   oldFile, prevResp, prevEnd, lost>>

\* except Exception as e: send_discord(err); return
FailNotify(ans) ==
    /\ notified' = notified
    /\ pc = "failed"
    /\ log' = Append(log, Ev("notify", "fetch_failed", e, 0, send_discord(webhook, ans)))
    /\ pc' = "done"
    /\ UNCHANGED <<fs, runs, ENFORCE_LOCAL_8PM, hour, USER_AGENT, API_KEY, webhook, items, total, i, last_err, trace, reply, e, seen, new_count, idx,
                   oldFile, prevResp, prevEnd, lost>>

\* Zero results: send_discord(info); return
ZeroNotify(ans) ==
    /\ notified' = notified
    /\ pc = "zero"
    /\ log' = Append(log, Ev("notify", "no_results", "", 0, send_discord(webhook, ans)))
    /\ pc' = "done"
    /\ UNCHANGED <<fs, runs, ENFORCE_LOCAL_8PM, hour, USER_AGENT, API_KEY, webhook, items, total, i, last_err, trace, reply, e, seen, new_count, idx,
                   oldFile, prevResp, prevEnd, lost>>

\* seen = load_seen(SEEN_PATH); new_count = 0; then the for loop up to its
\* first send_discord.
Load ==
    /\ notified' = notified
    /\ pc = "load"
    /\ LET s == load_seen(fs, SEEN_PATH)
           k == NextNew(items, s, 1)
       IN  /\ seen' = s
           /\ new_count' = 0
           /\ idx' = k
           /\ pc' = AfterItem(items, k, 0)
    /\ log' = Append(log, Ev("load", "", SEEN_PATH, 0, ""))
    /\ UNCHANGED <<fs, runs, ENFORCE_LOCAL_8PM, hour, USER_AGENT, API_KEY, webhook, items, total, i, last_err, trace, reply, e, oldFile,
                   prevResp, prevEnd, lost>>

\* send_discord(format_msg(rec)) for the item at idx, seen[key] = {...},
\* with first_seen the second t read off the clock, new_count += 1, then
\* the loop up to its next send_discord.  A send_discord that raised would
\* end the process with a traceback.
Send(ans, t) ==
    /\ pc = "send"
    /\ LET rec == Rec(items[idx])
           key == jid(rec)
           res == send_discord(webhook, ans)
           s   == Put(seen, key, Entry(rec, t))
           k   == NextNew(items, s, idx + 1)
       IN  IF res = "raise"
           THEN /\ pc' = "idle"
                /\ notified' = notified
                /\ prevEnd' = "aborted"
                /\ prevResp' = NoResp
                /\ lost' = {}
                /\ Forget
           ELSE /\ log' = Append(log, Ev("notify", "posting", key, idx, res))
                /\ notified' = IF notified = Untracked THEN notified
                                ELSE notified \cup {key}
                /\ seen' = s
                /\ new_count' = new_count + 1
                /\ idx' = k
                /\ pc' = AfterItem(items, k, new_count + 1)
                /\ UNCHANGED <<ENFORCE_LOCAL_8PM, hour, USER_AGENT, API_KEY, webhook, items, total, i,
                             last_err, trace, reply, e, prevResp, prevEnd, lost>>
    /\ UNCHANGED <<fs, runs, oldFile>>

\* The else branch after the loop: send_discord(msg)
NoNewNotify(ans) ==
    /\ notified' = notified
    /\ pc = "nonew"
    /\ log' = Append(log, Ev("notify", "no_new", "", 0, send_discord(webhook, ans)))
    /\ pc' = "done"
    /\ UNCHANGED <<fs, runs, ENFORCE_LOCAL_8PM, hour, USER_AGENT, API_KEY, webhook, items, total, i, last_err, trace, reply, e, seen, new_count, idx,
                   oldFile, prevResp, prevEnd, lost>>

(* --------------------------- save_seen -------------------------------- *)
\* open(tmp, "w"): the temporary file exists and is empty.
SaveOpen ==
    /\ notified' = notified
    /\ pc = "save_open"
    /\ fs' = [fs EXCEPT ![TmpPath(SEEN_PATH)] = Unparsable]
    /\ log' = Append(log, Ev("open", "", TmpPath(SEEN_PATH), 0, ""))
    /\ pc' = "save_dump"
    /\ UNCHANGED <<runs, ENFORCE_LOCAL_8PM, hour, USER_AGENT, API_KEY, webhook, items, total, i, last_err, trace, reply, e, seen, new_count, idx,
                   oldFile, prevResp, prevEnd, lost>>

\* json.dump(data, f) and the close of the with block: the temporary file
\* holds the complete dump.
SaveDump ==
    /\ notified' = notified
    /\ pc = "save_dump"
    /\ fs' = [fs EXCEPT ![TmpPath(SEEN_PATH)] = Dump(seen)]
    /\ log' = Append(log, Ev("dump", "", TmpPath(SEEN_PATH), 0, ""))
    /\ pc' = "save_replace"
    /\ UNCHANGED <<runs, ENFORCE_LOCAL_8PM, hour, USER_AGENT, API_KEY, webhook, items, total, i, last_err, trace, reply, e, seen, new_count, idx,
                   oldFile, prevResp, prevEnd, lost>>

\* os.replace(tmp, path): the rename, in one step.
SaveReplace ==
    /\ notified' = notified
    /\ pc = "save_replace"
    /\ fs' = IF TmpPath(SEEN_PATH) = SEEN_PATH THEN fs
             ELSE [fs EXCEPT ![SEEN_PATH] = fs[TmpPath(SEEN_PATH)],
                             ![TmpPath(SEEN_PATH)] = Absent]
    /\ log' = Append(log, Ev("replace", "", SEEN_PATH, 0, ""))
    /\ pc' = "done"
    /\ UNCHANGED <<runs, ENFORCE_LOCAL_8PM, hour, USER_AGENT, API_KEY, webhook, items, total, i, last_err, trace, reply, e, seen, new_count, idx,
                   oldFile, prevResp, prevEnd, lost>>

(* ------------------------ the end of a process ------------------------ *)
\* What the next process is to find: the API answering as it answered this
\* one (same), or anything.  The answer is followed from a process that
\* returned, or that was killed after it had notified a posting.
Handover(same, how) ==
    IF same /\ total >= 0 /\ (how = "completed" \/ PostingKeys(log) # {})
    THEN /\ prevResp' = [items |-> items, total |-> total]
         /\ prevEnd' = how
         /\ lost' = IF how = "crashed" THEN PostingKeys(log) ELSE {}
    ELSE /\ prevResp' = NoResp
         /\ prevEnd' = "none"
         /\ lost' = {}

\* run_once has returned and the process exits.
Exit(same) ==
    /\ notified' = notified
    /\ pc = "done"
    /\ pc' = "idle"
    /\ Handover(same, "completed")
    /\ oldFile' = fs[SEEN_PATH]
    /\ Forget
    /\ UNCHANGED <<fs, runs>>

\* The process is killed between two steps.
Crash(same) ==
    /\ notified' = notified
    /\ pc \notin {"idle", "done"}
    /\ pc' = "idle"
    /\ Handover(same, "crashed")
    /\ Forget
    /\ UNCHANGED <<fs, runs, oldFile>>

Next ==
    \/ \E enf \in BOOLEAN, h \in Hours : Main(enf, h)
    \/ \E wh \in BOOLEAN, ua \in UserAgents, key \in ApiKeys : Start(wh, ua, key)
    \/ \E wh \in BOOLEAN, ua \in UserAgents, key \in ApiKeys, ans \in PostReplies :
          StartNoCreds(wh, ua, key, ans)
    \/ \E got \in GetReplies : Get(got)
    \/ Sleep
    \/ \E d \in ParsedResponses : Return(d)
    \/ \E ans \in PostReplies : FailNotify(ans)
    \/ \E ans \in PostReplies : ZeroNotify(ans)
    \/ Load
    \/ \E ans \in PostReplies, t \in Times : Send(ans, t)
    \/ \E ans \in PostReplies : NoNewNotify(ans)
    \/ SaveOpen
    \/ SaveDump
    \/ SaveReplace
    \/ \E same \in BOOLEAN : Exit(same)
    \/ \E same \in BOOLEAN : Crash(same)

Spec == Init /\ [][Next]_vars

\* The first deployment: no state file, no temporary file, and the history
\* of notified fingerprints kept from the start.
InitAbsent ==
    /\ fs = [p \in Paths |-> Absent]
    /\ pc = "idle"
    /\ runs = 0
    /\ ENFORCE_LOCAL_8PM = FALSE
    /\ hour = NoHour
    /\ USER_AGENT = Unread
    /\ API_KEY = Unread
    /\ webhook = FALSE
    /\ items = <<>>
    /\ total = 0 - 1
    /\ i = 0
    /\ last_err = None
    /\ trace = <<>>
    /\ reply = NoReply
    /\ e = None
    /\ seen = EmptyStore
    /\ new_count = 0
    /\ idx = 0
    /\ log = <<>>
    /\ oldFile = Absent
    /\ prevResp = NoResp
    /\ prevEnd = "none"
    /\ lost = {}
    /\ notified = {}

SpecFromAbsent == InitAbsent /\ [][Next]_vars

(* ===================== the claims, C1 to C10 ========================== *)
\* Positions in a log or trace of the calls of one kind.
Calls(l, op) == {j \in DOMAIN l : l[j].op = op}
Notifs(l, kind) == {j \in DOMAIN l : l[j].op = "notify" /\ l[j].kind = kind}
Writes(l) == {j \in DOMAIN l : l[j].op \in {"open", "dump", "replace"}}

\* The store the running process found in the state file.
Loaded == IF oldFile.kind = "store" THEN oldFile.data ELSE EmptyStore

\* The inclusion filter rule the specification describes: the title is one
\* of the phrases looked for, or some grade code is one of those looked for.
FilterTitles == {"Planner", "Analyst"}
FilterGrades == {"12"}
FilterRule(rec) ==
    \/ rec.PositionTitle \in FilterTitles
    \/ \E g \in DOMAIN rec.JobGrade : rec.JobGrade[g] \in FilterGrades

\* C1: when the previous process returned and the API answers this process
\* as it answered that one, this process sends no posting notification and
\* does not write the state file (no open, dump or rename; the file stays as
\* found).
C1_RerunSendsNothing ==
    (prevEnd = "completed" /\ total >= 0) =>
        /\ Notifs(log, "posting") = {}
        /\ Writes(log) = {}
        /\ fs[SEEN_PATH] = oldFile

\* C1's case: a second process has returned, given the same non-empty answer
\* as the first, and the state file holds what the first process persisted.
C1_Witness ==
    /\ pc = "done"
    /\ prevEnd = "completed"
    /\ total > 0
    /\ Calls(log, "load") # {}
    /\ fs[SEEN_PATH].kind = "store"
    /\ \E k \in DOMAIN fs[SEEN_PATH].data : fs[SEEN_PATH].data[k].first_seen \in Times

\* C2, as claimed: every posting notified passes the inclusion filter rule,
\* and so does every posting whose fingerprint the process added to the
\* store.
C2_FilteredNeverNotified ==
    /\ \A j \in Notifs(log, "posting") : FilterRule(Rec(items[log[j].n]))
    /\ \A j \in DOMAIN items :
         (items[j].desc /\ jid(Rec(items[j])) \in DOMAIN seen \ DOMAIN Loaded)
            => FilterRule(Rec(items[j]))

\* The number of returned items that are not in the store the process loaded
\* and that pass the inclusion filter rule.
NewAndPassing(its, store) ==
    Cardinality({j \in DOMAIN its :
        /\ its[j].desc
        /\ jid(Rec(its[j])) \notin DOMAIN store
        /\ FilterRule(Rec(its[j]))})

\* C3, as claimed (for answers whose count is not 0): when the process has
\* returned, the number of posting notifications and the growth of the store
\* both equal the number of returned items that are new and pass the filter.
C3_CountsMatchFilter ==
    (pc = "done" /\ total > 0 /\ Len(items) > 0) =>
        /\ Cardinality(Notifs(log, "posting")) = NewAndPassing(items, Loaded)
        /\ Cardinality(DOMAIN load_seen(fs, SEEN_PATH)) - Cardinality(DOMAIN Loaded)
             = NewAndPassing(items, Loaded)

\* The calls of a fetch whose first k attempts fail and whose attempt k + 1
\* succeeds: k times a GET and a sleep of backoff * 2^(j-1), then one GET.
RECURSIVE RetryTrace(_, _)
RetryTrace(k, j) ==
    IF j > k THEN <<Ev("GET", "return", "", k + 1, "")>>
    ELSE <<Ev("GET", "failed", "", j, ""),
           Ev("sleep", "", "", RETRY_BACKOFF * Pow2(j - 1), "")>> \o RetryTrace(k, j + 1)

\* C4: when fetch_with_retries is about to return after k failed attempts,
\* its calls are exactly k + 1 GETs and k sleeps, the j-th sleep of
\* backoff * 2^(j-1) seconds, ending with the successful GET; and once it
\* has returned no GET or sleep follows.
C4_RetryThenSuccess ==
    /\ pc = "fetched" =>
          \E k \in 0..(RETRY_ATTEMPTS - 1) : trace = RetryTrace(k, 1)
    /\ (total >= 0 /\ pc # "fetched") => (trace = <<>> /\ pc \notin {"get", "sleep"})

\* C4's case: two failed attempts, then success.
C4_Witness == pc = "fetched" /\ Len(trace) = 5 /\ Cardinality(Calls(trace, "sleep")) = 2

\* C5: when every attempt has failed, the fetch has made exactly `attempts`
\* GETs and `attempts` - 1 sleeps, the last call being a GET, and the error
\* run_once catches carries the last recorded message; run_once then sends
\* the one "fetch failed" notification with that message and nothing else,
\* and reads and writes no file.
FetchExhausted == total < 0 /\ trace # <<>> /\ pc \in {"failed", "done"}
C5_AllAttemptsFail ==
    FetchExhausted =>
        /\ Cardinality(Calls(trace, "GET")) = RETRY_ATTEMPTS
        /\ Cardinality(Calls(trace, "sleep")) = RETRY_ATTEMPTS - 1
        /\ \A j \in Calls(trace, "GET") : trace[j].kind = "failed"
        /\ trace[Len(trace)].op = "GET"
        /\ e = last_err
        /\ e \in {"timed out", "HTTP 503", "Expecting value"}
        /\ log = IF pc = "failed" THEN <<>>
                 ELSE <<Ev("notify", "fetch_failed", e, 0, log[1].res)>>
        /\ fs[SEEN_PATH] = oldFile
        /\ seen = EmptyStore

\* C5's case: three transport errors, and run_once has returned.
C5_Witness ==
    /\ pc = "done" /\ FetchExhausted
    /\ reply.exc /\ e = "timed out"
    /\ Len(log) = 1

\* C6: while a process runs, save_seen included, and after it was killed,
\* the state file is the complete file the process found; once the process
\* has returned it is that file or the complete dump of the new store.
C6_AtomicPersistence ==
    /\ pc # "done" => fs[SEEN_PATH] = oldFile
    /\ pc = "done" => (fs[SEEN_PATH] = oldFile \/ fs[SEEN_PATH] = Dump(seen))

\* C6's case: a process was killed inside save_seen (its temporary file is
\* left behind, truncated or complete) and the state file it had found, a
\* store, is still there.
C6_Witness ==
    /\ pc = "idle"
    /\ prevEnd = "crashed"
    /\ fs[SEEN_PATH \o ".tmp"] # Absent
    /\ fs[SEEN_PATH].kind = "store"
    /\ fs[SEEN_PATH] = oldFile

\* C7: the posting notifications of a process are in the order of the
\* response; nothing of save_seen comes before the last of them, and when
\* save_seen starts every returned posting has been dealt with; the file is
\* renamed at most once, exactly once when the process has returned having
\* accepted a posting, and no step of save_seen is taken when none was.
C7_NotifyInOrderThenSaveOnce ==
    LET P == Notifs(log, "posting")
        W == Writes(log)
    IN  /\ \A a, b \in P : a < b => log[a].n < log[b].n
        /\ \A a \in P, w \in W : a < w
        /\ W # {} => \A j \in DOMAIN items : Skipped(items[j], seen)
        /\ Cardinality(Calls(log, "replace")) <= 1
        /\ P = {} => W = {} /\ pc \notin {"save_open", "save_dump", "save_replace"}
        /\ (pc = "done" /\ P # {}) =>
              /\ Cardinality(Calls(log, "replace")) = 1
              /\ log[Len(log)].op = "replace"

\* C7's case: a process that notified two postings, then saved, and returned.
C7_Witness ==
    /\ pc = "done"
    /\ Cardinality(Notifs(log, "posting")) >= 2
    /\ Calls(log, "replace") # {}

\* The posting notifications whose delivery failed.
FailedPosts == {j \in Notifs(log, "posting") : log[j].res = "failed"}

\* C8: no process ends on an exception of send_discord; a posting whose
\* delivery failed is in the in-memory store, and when the process has
\* returned every returned posting has been dealt with and the state file is
\* the dump of the store, the failed posting in it.
C8_FailedDeliveryGoesOn ==
    /\ prevEnd # "aborted"
    /\ \A j \in FailedPosts :
          /\ log[j].key \in DOMAIN seen
          /\ pc = "done" =>
                /\ \A x \in DOMAIN items : Skipped(items[x], seen)
                /\ fs[SEEN_PATH] = Dump(seen)
                /\ log[j].key \in DOMAIN fs[SEEN_PATH].data

\* C8's case: a delivery failed, a later posting was notified all the same,
\* and the process has saved and returned.
C8_Witness ==
    /\ pc = "done"
    /\ \E j \in FailedPosts : \E x \in Notifs(log, "posting") : x > j
    /\ Calls(log, "replace") # {}

\* C9: when the previous process was killed after it had notified postings
\* (and before the rename), and the API answers this process the same, then
\* this process, once it has returned, has notified each of them again.
C9_RenotifiedAfterCrash ==
    (prevEnd = "crashed" /\ pc = "done" /\ total >= 0) =>
        lost \subseteq PostingKeys(log)

\* C9's case: such a process has returned, the killed one having notified
\* two postings.
C9_Witness ==
    /\ prevEnd = "crashed" /\ pc = "done" /\ total >= 0
    /\ Cardinality(lost) >= 2
    /\ lost \subseteq PostingKeys(log)

\* An attempt that got a status other than 200, or status 200 with a body
\* that is not JSON.
BadAnswer(got) == ~got.exc /\ (got.status # 200 \/ ~got.json)
ErrorTextOf(got) == IF got.status # 200 THEN "HTTP 503" ELSE "Expecting value"

\* C10: right after an attempt that got such an answer, the attempt counts
\* as failed and last_err is its error text; the sleep is next while attempts
\* remain, and the fetch gives up (with that text) only at the last attempt;
\* in the calls of the fetch every failed GET but the last allowed one is
\* followed by a sleep and every sleep by the next GET already made or about
\* to be made.
C10_BadAnswerIsRetried ==
    /\ (trace # <<>> /\ trace[Len(trace)].op = "GET" /\ BadAnswer(reply)) =>
          /\ trace[Len(trace)].kind = "failed"
          /\ last_err = ErrorTextOf(reply)
          /\ IF trace[Len(trace)].n < RETRY_ATTEMPTS
             THEN pc = "sleep"
             ELSE pc \in {"failed", "done"} /\ e = ErrorTextOf(reply)
    /\ (pc \in {"failed", "done"} /\ total < 0 /\ trace # <<>>) =>
          Cardinality(Calls(trace, "GET")) = RETRY_ATTEMPTS
    /\ \A j \in DOMAIN trace :
          /\ (trace[j].op = "GET" /\ j < Len(trace)) =>
                (trace[j].kind = "failed" /\ trace[j + 1].op = "sleep")
          /\ (trace[j].op = "sleep" /\ j < Len(trace)) =>
                (trace[j + 1].op = "GET" /\ trace[j + 1].n = trace[j - 1].n + 1)
          /\ (trace[j].op = "sleep" /\ j = Len(trace)) => pc = "get"

\* C10's case: the second attempt got a 200 whose body is not JSON; it is
\* recorded and the sleep before the third attempt is next.
C10_Witness ==
    /\ pc = "sleep"
    /\ Len(trace) = 3
    /\ trace[3].n = 2
    /\ reply.status = 200 /\ ~reply.json
    /\ last_err = "Expecting value"

(* ===================== the claims, C11 to C19 ========================= *)
\* C11: a process that run_once found without its user agent or without its
\* API key has sent the credentials message and nothing else, has made no
\* GET (no attempt, no reply, no body), has neither loaded nor written the
\* state file, which is as the process found it, and run_once has returned.
C11_MissingCredentials ==
    (~Truthy(USER_AGENT) \/ ~Truthy(API_KEY)) =>
        /\ pc = "done"
        /\ Len(log) = 1
        /\ Cardinality(Notifs(log, "creds")) = 1
        /\ trace = <<>> /\ i = 0 /\ reply = NoReply /\ total < 0
        /\ Calls(log, "load") = {}
        /\ Writes(log) = {}
        /\ fs[SEEN_PATH] = oldFile

\* C11's case: run_once has returned in a process whose user agent is set to
\* the empty string while the API key is present, the webhook having turned
\* the message down.
C11_Witness ==
    /\ pc = "done"
    /\ USER_AGENT = "" /\ API_KEY = "key"
    /\ Notifs(log, "creds") = {1}
    /\ log[1].res = "failed"

\* C12: once the fetch has returned a total of 0 or an empty list (a missing
\* list reads as an empty one), the process goes to the "no results" message
\* and nowhere else: it sends no posting notification and no "no new items"
\* message, does not load or write the state file, which stays as found, and
\* when run_once has returned its one I/O call is the "no results" message.
C12_ZeroResults ==
    (total >= 0 /\ (total = 0 \/ Len(items) = 0)) =>
        /\ pc \in {"zero", "done"}
        /\ Notifs(log, "posting") = {}
        /\ Notifs(log, "no_new") = {}
        /\ Calls(log, "load") = {}
        /\ Writes(log) = {}
        /\ fs[SEEN_PATH] = oldFile
        /\ IF pc = "done"
           THEN Len(log) = 1 /\ Notifs(log, "no_results") = {1}
           ELSE log = <<>>

\* C12's case: run_once has returned after a fetch whose body counted 0
\* results while its list held a posting whose fingerprint is not stored.
C12_Witness ==
    /\ pc = "done"
    /\ total = 0
    /\ Len(items) = 1
    /\ items[1].desc
    /\ jid(Rec(items[1])) \notin DOMAIN Loaded
    /\ Notifs(log, "no_results") = {1}

\* C12's other case: the same with a list that is empty and a count that is
\* not 0.
C12_WitnessEmptyList ==
    /\ pc = "done"
    /\ total > 0
    /\ items = <<>>
    /\ Notifs(log, "no_results") = {1}

\* The positions of the returned items the loop has to accept: those with a
\* descriptor whose fingerprint the state file did not hold when the process
\* started.
Fresh == {j \in DOMAIN items : items[j].desc /\ jid(Rec(items[j])) \notin DOMAIN Loaded}

\* C13: with a count other than 0 and a list that is not empty, (a) when no
\* item is to be accepted and run_once has returned, the process has loaded
\* the store, sent the "no new items" message once and nothing else, and has
\* not written the state file; (b) when some item is to be accepted, or a
\* posting has been notified, the process sends neither the "no new items"
\* nor the "no results" message.
C13_NoNewItems ==
    (total > 0 /\ Len(items) > 0) =>
        /\ (pc = "done" /\ Fresh = {}) =>
              /\ Len(log) = 2
              /\ Calls(log, "load") = {1}
              /\ Notifs(log, "no_new") = {2}
              /\ Writes(log) = {}
              /\ fs[SEEN_PATH] = oldFile
        /\ (Fresh # {} \/ Notifs(log, "posting") # {}) =>
              /\ Notifs(log, "no_new") = {}
              /\ Notifs(log, "no_results") = {}
              /\ pc \notin {"nonew", "zero"}

\* C13's case (a): run_once has returned from a list of two items, one
\* without descriptor and one whose fingerprint the state file held.
C13_Witness ==
    /\ pc = "done"
    /\ total > 0
    /\ Len(items) = 2
    /\ Fresh = {}
    /\ \E j \in DOMAIN items : items[j].desc
    /\ \E j \in DOMAIN items : ~items[j].desc
    /\ Notifs(log, "no_new") = {2}

\* C13's case (b): run_once has returned having accepted a posting and
\* persisted the store.
C13_WitnessAccepted ==
    /\ pc = "done"
    /\ total > 0
    /\ Fresh # {}
    /\ Cardinality(Notifs(log, "posting")) = Cardinality(Fresh)
    /\ Calls(log, "replace") # {}

\* C14: a process that started with the gate enforced at a local hour other
\* than 20 is done without any I/O call: no GET, no notification, no load or
\* write, the state file as found.  A process that started with the gate
\* not enforced, at whatever hour, or enforced at hour 20, is in run_once.
C14_TimeGate ==
    hour # NoHour =>
        IF ENFORCE_LOCAL_8PM /\ hour # 20
        THEN /\ pc = "done"
             /\ log = <<>>
             /\ trace = <<>> /\ i = 0 /\ reply = NoReply /\ total < 0
             /\ fs[SEEN_PATH] = oldFile
        ELSE pc = "run_once"

\* C14's case: a process started at 9 PM with the gate enforced, and is
\* done.
C14_Witness ==
    /\ pc = "done"
    /\ ENFORCE_LOCAL_8PM
    /\ hour = 21
    /\ runs = 2
    /\ fs[SEEN_PATH].kind = "store"

\* C14's other cases: a process in run_once that started at 7 PM with the
\* gate not enforced; one that started at 8 PM with the gate enforced.
C14_WitnessDisabled == pc = "run_once" /\ ~ENFORCE_LOCAL_8PM /\ hour = 19
C14_WitnessAt8PM == pc = "run_once" /\ ENFORCE_LOCAL_8PM /\ hour = 20

\* C15: in a process that found the state file absent or unparsable and has
\* loaded it, the store in memory holds the fingerprints notified by this
\* process and no other, and every item with a descriptor the loop has
\* passed has had its fingerprint notified: nothing counted as seen.  When
\* run_once has returned, the loop has passed every item, and the state
\* file, if a posting was notified, is the complete dump of that store, one
\* entry of this run per fingerprint, with no temporary file left; it is as
\* found otherwise.
C15_AbsentOrUnparsable ==
    (oldFile.kind # "store" /\ Calls(log, "load") # {}) =>
        /\ DOMAIN seen = PostingKeys(log)
        /\ \A j \in DOMAIN items :
             (items[j].desc /\ j < idx) => jid(Rec(items[j])) \in PostingKeys(log)
        /\ \A k \in DOMAIN seen :
             \E j \in DOMAIN items : items[j].desc /\ jid(Rec(items[j])) = k
                                     /\ \E t \in Times : seen[k] = Entry(Rec(items[j]), t)
        /\ pc = "done" =>
             /\ idx = Len(items) + 1
             /\ IF PostingKeys(log) = {}
                THEN fs[SEEN_PATH] = oldFile
                ELSE /\ fs[SEEN_PATH] = Dump(seen)
                     /\ fs[SEEN_PATH \o ".tmp"] = Absent

\* C15's case: the second process found the state file unparsable and a
\* complete temporary file beside it, left by the first, which was killed
\* before the rename; it has notified two postings again and persisted them.
C15_Witness ==
    /\ pc = "done"
    /\ runs = 2
    /\ oldFile = Unparsable
    /\ prevEnd = "crashed"
    /\ Cardinality(PostingKeys(log)) = 2
    /\ lost = PostingKeys(log)
    /\ fs[SEEN_PATH].kind = "store"
    /\ DOMAIN fs[SEEN_PATH].data = PostingKeys(log)

\* C15's other case: the same from an absent state file, in a first process.
C15_WitnessAbsent ==
    /\ pc = "done"
    /\ oldFile = Absent
    /\ Cardinality(PostingKeys(log)) = 2
    /\ fs[SEEN_PATH] = Dump(seen)

\* The fingerprints notified by the running process, in the order sent.
RECURSIVE NotifiedSeq(_)
NotifiedSeq(l) ==
    IF l = <<>> THEN <<>>
    ELSE IF Head(l).op = "notify" /\ Head(l).kind = "posting"
         THEN <<Head(l).key>> \o NotifiedSeq(Tail(l))
         ELSE NotifiedSeq(Tail(l))

\* The returned list without the items that lack a descriptor, and the
\* fingerprints of its items.
HasDescriptor(item) == item.desc
WellFormed(its) == SelectSeq(its, HasDescriptor)
KeysOf(its) == [j \in DOMAIN its |-> jid(Rec(its[j]))]

\* Of a sequence of fingerprints, those not in have, each once, in order.
RECURSIVE FirstOnes(_, _)
FirstOnes(keys, have) ==
    IF keys = <<>> THEN <<>>
    ELSE IF Head(keys) \in have THEN FirstOnes(Tail(keys), have)
         ELSE <<Head(keys)>> \o FirstOnes(Tail(keys), have \cup {Head(keys)})

\* The set of the elements of a sequence.
Range(q) == {q[j] : j \in DOMAIN q}

\* C16: in a process given a list with an item that lacks its descriptor,
\* which has loaded the store: no notification is for such an item, and
\* every fingerprint added to the store is that of an item with a
\* descriptor.  When run_once has returned (it does: the item raises no
\* error), the fingerprints notified, in order, and the fingerprints added
\* are those the list without the malformed items gives.
C16_MissingDescriptorSkipped ==
    ((\E j \in DOMAIN items : ~items[j].desc) /\ Calls(log, "load") # {}) =>
        /\ \A j \in Notifs(log, "posting") : items[log[j].n].desc
        /\ \A k \in DOMAIN seen \ DOMAIN Loaded :
             \E j \in DOMAIN items : items[j].desc /\ jid(Rec(items[j])) = k
        /\ pc \notin {"idle", "failed"}
        /\ pc = "done" =>
             /\ NotifiedSeq(log) = FirstOnes(KeysOf(WellFormed(items)), DOMAIN Loaded)
             /\ DOMAIN seen = DOMAIN Loaded \cup Range(KeysOf(WellFormed(items)))

\* C16's case: run_once has returned from a list of two items, the first
\* without descriptor, the second notified and persisted.
C16_Witness ==
    /\ pc = "done"
    /\ Len(items) = 2
    /\ ~items[1].desc
    /\ items[2].desc
    /\ Len(NotifiedSeq(log)) = 1
    /\ Notifs(log, "posting") # {}
    /\ \A j \in Notifs(log, "posting") : log[j].n = 2
    /\ fs[SEEN_PATH] = Dump(seen)

\* C17: the posting notifications of a process bear distinct fingerprints.
\* Each is for the first item of the list, among those with a descriptor,
\* that has its fingerprint, and the entry the store holds under that
\* fingerprint is the one made of that first item.
C17_OncePerFingerprint ==
    /\ \A j1, j2 \in Notifs(log, "posting") : log[j1].key = log[j2].key => j1 = j2
    /\ \A j \in Notifs(log, "posting") :
         /\ log[j].key = jid(Rec(items[log[j].n]))
         /\ \A m \in 1..(log[j].n - 1) :
              ~(items[m].desc /\ jid(Rec(items[m])) = log[j].key)
         /\ log[j].key \in DOMAIN seen
         /\ \E t \in Times : seen[log[j].key] = Entry(Rec(items[log[j].n]), t)

\* C17's case: run_once has returned from a list of two items that differ
\* in their URIs and have one fingerprint, which the state file did not
\* hold: one notification, for the first, and the entry of the first.
C17_Witness ==
    /\ pc = "done"
    /\ Len(items) = 2
    /\ items[1].desc /\ items[2].desc
    /\ items[1] # items[2]
    /\ jid(Rec(items[1])) = jid(Rec(items[2]))
    /\ \A t \in Times : Entry(Rec(items[1]), t) # Entry(Rec(items[2]), t)
    /\ Cardinality(Notifs(log, "posting")) = 1
    /\ fs[SEEN_PATH].kind = "store"
    /\ \E t \in Times : fs[SEEN_PATH].data[jid(Rec(items[1]))] = Entry(Rec(items[1]), t)

\* C18: while and after a process that found a parsable state file runs,
\* until the next process starts: the state file is parsable and holds every
\* fingerprint the process found in it, with the entry found; so does the
\* store in memory once loaded; a fingerprint the file has gained is one the
\* process notified; and when run_once has returned past the load, the file
\* holds the fingerprints found and those notified, no other, each notified
\* one with the entry made of its posting in this run.
C18_AppendOnly ==
    oldFile.kind = "store" =>
        /\ fs[SEEN_PATH].kind = "store"
        /\ \A k \in DOMAIN Loaded :
             k \in DOMAIN fs[SEEN_PATH].data /\ fs[SEEN_PATH].data[k] = Loaded[k]
        /\ Calls(log, "load") # {} =>
             \A k \in DOMAIN Loaded : k \in DOMAIN seen /\ seen[k] = Loaded[k]
        /\ DOMAIN fs[SEEN_PATH].data \ DOMAIN Loaded \subseteq PostingKeys(log)
        /\ (pc = "done" /\ Calls(log, "load") # {}) =>
             /\ DOMAIN fs[SEEN_PATH].data = DOMAIN Loaded \cup PostingKeys(log)
             /\ \A j \in Notifs(log, "posting") :
                  \E t \in Times :
                     fs[SEEN_PATH].data[log[j].key] = Entry(Rec(items[log[j].n]), t)

\* C18's case: the state file held an entry when the model started, the
\* first process added one, at second 2, and the second process another, at
\* second 1 (the clock was set back in between): run_once has returned in
\* the second process and the file holds the three entries.
C18_Witness ==
    /\ pc = "done"
    /\ runs = 2
    /\ oldFile.kind = "store"
    /\ Cardinality(DOMAIN oldFile.data) = 2
    /\ \E k \in DOMAIN oldFile.data : oldFile.data[k].first_seen = 2
    /\ Cardinality(PostingKeys(log)) = 1
    /\ \A k \in PostingKeys(log) : fs[SEEN_PATH].data[k].first_seen = 1
    /\ fs[SEEN_PATH].kind = "store"
    /\ Cardinality(DOMAIN fs[SEEN_PATH].data) = 3
    /\ \A t \in 0..2 : \E k \in DOMAIN fs[SEEN_PATH].data :
                          fs[SEEN_PATH].data[k].first_seen = t

\* C19 (in SpecFromAbsent: the model starts without a state file): every
\* fingerprint in the state file, and every fingerprint in a complete
\* temporary file beside it, is the fingerprint of a posting some process,
\* this one or an earlier one, has called send_discord for.
C19_PersistedWasNotified ==
    /\ notified # Untracked
    /\ \A p \in Paths :
         fs[p].kind = "store" => DOMAIN fs[p].data \subseteq notified

\* C19's case: the first process was killed after it had notified a posting,
\* the second has notified and persisted another: run_once has returned and
\* the state file holds some of the fingerprints notified, not all.
C19_Witness ==
    /\ pc = "done"
    /\ runs = 2
    /\ PostingKeys(log) # {}
    /\ fs[SEEN_PATH].kind = "store"
    /\ DOMAIN fs[SEEN_PATH].data = PostingKeys(log)
    /\ notified # DOMAIN fs[SEEN_PATH].data

====
